---- MODULE Spec2Model ----
(***************************************************************************)
(* Model of nqdc's data-extraction stage: the corpus traversal             *)
(* (iter_articles), the record assembler (extract_data), the text          *)
(* extractor (TextExtractor) and the batch orchestrator                    *)
(* (extract_data_to_csv) with its ExitStack-scoped CSV writers.            *)
(*                                                                         *)
(* The entries of a directory are modelled by their rank in the            *)
(* lexicographic order of their names: a directory is the sequence of its  *)
(* entries by name, and entry i sorts before entry j exactly when i < j.   *)
(* The order in which the filesystem enumerates them is any permutation.   *)
(***************************************************************************)
EXTENDS Integers, Sequences, FiniteSets, TLC

\* ---------------------------------------------------------------- bounds
\* Largest number of entries in the corpus root.
MaxShards == 2
\* Largest number of entries in one shard directory.
MaxFiles == 2

\* Largest number of names whose every enumeration order is explored; of
\* more names the rotations of the ascending and of the descending order.
MaxEnumerated == 3
\* Number of shard directories, and largest number of entries of a shard,
\* in the corpus roots the progress observations are followed on.
ProgressShards == 3
ProgressFiles == 21

\* iter_articles logs its progress every ProgressEvery files.
ProgressEvery == 20

\* ------------------------------------------------------------ vocabulary
\* What an entry of a shard directory can be:
\*   "other"   an entry whose name does not match pmcid_*.xml
\*   "bad"     matches pmcid_*.xml but etree.parse raises on it
\*   "good"    matches pmcid_*.xml and parses
FileKinds == {"other", "bad", "good"}
PlainFileKinds == {"bad", "good"}

SeqsUpTo(S, n) == UNION {[1..k -> S] : k \in 0..n}

\* What an entry of the corpus root can be: a plain file, or a directory
\* with its entries.
FileEntry == [kind |-> "file", files |-> <<>>]
DirEntries(kinds) == {[kind |-> "dir", files |-> fs] : fs \in SeqsUpTo(kinds, MaxFiles)}
\* Corpus roots with stray entries: plain files in the root, files with
\* other names in the shards.
Trees == SeqsUpTo(DirEntries(FileKinds) \cup {FileEntry}, MaxShards)
\* Corpus roots as nqdc.extract_articles leaves them: shard directories
\* holding article files.
PlainTrees == SeqsUpTo(DirEntries(PlainFileKinds), MaxShards)

\* The entries of a shard of n entries in which every o-th name does not
\* match pmcid_*.xml and, of the others, every k-th does not parse.
ShardFiles(n, k, o) ==
    [f \in 1..n |-> IF o > 0 /\ f % o = 0 THEN "other"
                    ELSE IF k > 0 /\ f % k = 0 THEN "bad"
                    ELSE "good"]
BadPeriods == {0, 1, 3}
OtherPeriods == {0, 4}
\* Corpus roots with enough files for progress observations: shards of
\* almost ProgressFiles entries each.
ProgressTrees ==
    {[d \in 1..ProgressShards |-> [kind |-> "dir", files |-> ShardFiles(n[d], k, o)]] :
        n \in [1..ProgressShards -> (ProgressFiles - 2)..ProgressFiles],
        k \in BadPeriods, o \in OtherPeriods}

\* TextExtractor.fields
fields == <<"pmcid", "title", "keywords", "abstract", "body">>
FieldNames == {fields[i] : i \in DOMAIN fields}

\* The registered extractors, in the order extract_data runs them.
data_extractors == <<"coordinates", "metadata", "text">>
\* The registered writers, in the order extract_data_to_csv builds them.
all_writers == <<"metadata", "text", "coordinates">>
WriterNames == {all_writers[i] : i \in DOMAIN all_writers}

\* The entry points a run can be started through.
Modes == {"iter_articles", "extract_data_to_csv"}

VARIABLES
    mode,                       \* which entry point this run called
    root_exists,                \* articles_dir exists
    tree,                       \* content of articles_dir
    articles_with_coords_only,  \* the keyword argument of the run
    output_dir_exists,          \* the output directory exists
    info_json,                  \* content of output_dir/info.json: <<>> or <<n>>
    info_written,               \* this run wrote info.json
    pc,                         \* position of the caller's frame
    exc,                        \* the exception in flight or raised
    ia_pc,                      \* position of the iter_articles generator
    enumerated,                 \* iter_articles has listed the root
    subdirs,                    \* iter_articles: the sorted shard list
    si,                         \* iter_articles: index into subdirs
    article_files,              \* iter_articles: the sorted file list
    fi,                         \* iter_articles: index into article_files
    ia_n_articles,              \* iter_articles: n_articles
    n_failures,                 \* iter_articles: n_failures
    yielded,                    \* documents yielded so far, in order
    progress,                   \* iter_articles: progress messages logged
    ed_pc,                      \* position of the extract_data generator
    article,                    \* extract_data: the document being assembled
    article_data,               \* extract_data: the record being built
    ei,                         \* extract_data: index into data_extractors
    constructed,                \* the writers have been constructed
    wstate,                     \* per writer: "CLOSED" or "OPEN"
    opened,                     \* writers whose __enter__ succeeded
    stack,                      \* ExitStack: the registered writers
    wi,                         \* extract_data_to_csv: writer loop index
    n_articles,                 \* extract_data_to_csv: n_articles
    written,                    \* per writer: documents received, in order
    output_dir,                 \* _get_output_dir: the output_dir argument
    disk,                       \* _get_output_dir: the paths it can touch
    returned_dir,               \* _get_output_dir: the path returned
    transformed,                \* TextExtractor.extract: what the stylesheet does
    text_result                 \* TextExtractor.extract: returned or raised

envVars == <<mode, root_exists, tree, articles_with_coords_only>>
outVars == <<output_dir_exists, info_json, info_written>>
iaVars == <<ia_pc, enumerated, subdirs, si, article_files, fi,
            ia_n_articles, n_failures, yielded, progress>>
edVars == <<ed_pc, article, article_data, ei>>
csvVars == <<constructed, wstate, opened, stack, wi, n_articles, written>>
godVars == <<output_dir, disk, returned_dir>>
textVars == <<transformed, text_result>>
\* The variables of the calls of one function on its own.
unitVars == <<godVars, textVars>>
vars == <<envVars, outVars, pc, exc, iaVars, edVars, csvVars, unitVars>>

\* ------------------------------------------------------- pure operators
Range(s) == {s[i] : i \in DOMAIN s}

RECURSIVE Ascending(_)
\* The names of S, smallest first.
Ascending(S) ==
    IF S = {} THEN <<>>
    ELSE LET x == CHOOSE x \in S : \A y \in S : x <= y
         IN <<x>> \o Ascending(S \ {x})
Reverse(s) == [i \in DOMAIN s |-> s[Len(s) + 1 - i]]
Rotate(s, k) == [i \in DOMAIN s |-> s[((i + k - 1) % Len(s)) + 1]]

\* The orders in which the filesystem may enumerate the names of S: any
\* order; of more than MaxEnumerated names, the orders followed are the
\* rotations of the ascending and of the descending order.
Enumerations(S) ==
    IF Cardinality(S) <= MaxEnumerated
    THEN {s \in [1..Cardinality(S) -> S] :
            \A i, j \in DOMAIN s : i # j => s[i] # s[j]}
    ELSE {Rotate(Ascending(S), k) : k \in 0..(Cardinality(S) - 1)}
            \cup {Rotate(Reverse(Ascending(S)), k) : k \in 0..(Cardinality(S) - 1)}

RECURSIVE Insert(_, _)
Insert(x, s) ==
    IF s = <<>> THEN <<x>>
    ELSE IF x <= Head(s) THEN <<x>> \o s
    ELSE <<Head(s)>> \o Insert(x, Tail(s))

RECURSIVE sorted(_)
\* Python's sorted() on paths that share a parent.
sorted(s) == IF s = <<>> THEN <<>> ELSE Insert(Head(s), sorted(Tail(s)))

RECURSIVE Filter(_, _)
Filter(s, keep) ==
    IF s = <<>> THEN <<>>
    ELSE IF Head(s) \in keep THEN <<Head(s)>> \o Filter(Tail(s), keep)
    ELSE Filter(Tail(s), keep)

\* The entries of the corpus root / of shard d: all, the directories, the
\* files named pmcid_*.xml.
RootNames(t) == DOMAIN t
DirNames(t) == {d \in DOMAIN t : t[d].kind = "dir"}
EntryNames(t, d) == DOMAIN t[d].files
MatchingNames(t, d) == {f \in DOMAIN t[d].files : t[d].files[f] \in {"bad", "good"}}

\* sorted([f for f in articles_dir.glob("*") if f.is_dir()]) for one
\* enumeration order of the root.
ListSubdirs(t, order) == sorted(Filter(order, DirNames(t)))

\* Mutant: the article files are taken in the order the filesystem gives.
ListArticleFilesUnsorted(t, d, order) == Filter(order, MatchingNames(t, d))

\* sorted(subdir.glob("pmcid_*.xml")) for one enumeration order of shard d.
ListArticleFiles(t, d, order) == sorted(Filter(order, MatchingNames(t, d)))

\* ------------------------------------------------------- text extractor
\* What the stylesheet's output holds for one field: no element
\* (find returns None), an element without text, an element whose text is
\* not a number, an element whose text is a number.
ElemKinds == {"absent", "null", "text", "digits"}
\* What stylesheet(article) can do: raise, or give a transformed document.
Transforms == [error : BOOLEAN, elems : [FieldNames -> ElemKinds]]

EmptyDict == [k \in {} |-> "None"]

\* elem.text
ElemText(kind) == IF kind = "null" THEN "None" ELSE kind

RECURSIVE FieldLoopSkippingAbsent(_, _, _)
\* Mutant: a field without an element is passed over (if elem is None:
\* continue), except pmcid.
FieldLoopSkippingAbsent(t, i, result) ==
    IF i > Len(fields) THEN [raised |-> FALSE, result |-> result]
    ELSE IF t.elems[fields[i]] = "absent"
         THEN IF fields[i] = "pmcid" THEN [raised |-> TRUE, result |-> result]
              ELSE FieldLoopSkippingAbsent(t, i + 1, result)
    ELSE FieldLoopSkippingAbsent(t, i + 1,
            (fields[i] :> ElemText(t.elems[fields[i]])) @@ result)

RECURSIVE FieldLoop(_, _, _)
\* for part_name in self.fields: result[part_name] = transformed.find(..).text
FieldLoop(t, i, result) ==
    IF i > Len(fields) THEN [raised |-> FALSE, result |-> result]
    ELSE IF t.elems[fields[i]] = "absent" THEN [raised |-> TRUE, result |-> result]
    ELSE FieldLoop(t, i + 1, (fields[i] :> ElemText(t.elems[fields[i]])) @@ result)

\* TextExtractor._extract_text_from_article: the value returned, or raised.
ExtractText(t) ==
    IF t.error THEN [raised |-> FALSE, result |-> EmptyDict]
    ELSE LET looped == FieldLoop(t, 1, EmptyDict) IN
         IF looped.raised THEN looped
         ELSE IF looped.result["pmcid"] # "digits"
              THEN [raised |-> TRUE, result |-> looped.result]
              ELSE [raised |-> FALSE,
                    result |-> ("pmcid" :> "int") @@ looped.result]

\* Before extract has been called: nothing returned, nothing raised.
NoTextResult == [raised |-> FALSE, result |-> EmptyDict]

GoodElems == [f \in FieldNames |-> IF f = "pmcid" THEN "digits" ELSE "text"]
\* The transform outcomes the documents of a run are drawn from: the
\* stylesheet raises, a complete document, a document without a body
\* element.
RunTransforms ==
    { [error |-> TRUE, elems |-> GoodElems],
      [error |-> FALSE, elems |-> GoodElems],
      [error |-> FALSE, elems |-> [GoodElems EXCEPT !["body"] = "absent"]] }

\* ------------------------------------------------------- _get_output_dir
\* A name is the sequence of the pieces it is written from, a path the
\* sequence of the names of its components; None is the empty path.
NoPath == <<>>
CurDir == <<".">>
ArticlesDir == << <<"data">>, <<"articles">> >>

\* Path(p): the components "." are dropped.
RECURSIVE Path(_)
Path(p) ==
    IF p = <<>> THEN <<>>
    ELSE IF Head(p) = CurDir THEN Path(Tail(p))
    ELSE <<Head(p)>> \o Path(Tail(p))

\* path.with_name(name)
with_name(p, name) == SubSeq(p, 1, Len(p) - 1) \o <<name>>
\* f"subset_{subset_name}_extractedData"
SubsetDirName(subset_name) == <<"subset_", subset_name, "_extractedData">>

\* Mutant: the two subset names are exchanged.
ResolveOutputDirSwapped(dir, coords_only) ==
    IF dir = NoPath
    THEN with_name(Path(ArticlesDir),
                   SubsetDirName(IF coords_only THEN "allArticles"
                                 ELSE "articlesWithCoords"))
    ELSE Path(dir)

\* Lines 106-117: the local output_dir before mkdir.
ResolveOutputDir(dir, coords_only) ==
    IF dir = NoPath
    THEN with_name(Path(ArticlesDir),
                   SubsetDirName(IF coords_only THEN "articlesWithCoords"
                                 ELSE "allArticles"))
    ELSE Path(dir)

\* The output_dir arguments of a call: none, a directory of its own, the
\* same written with a "." component, its parent, and the directory the
\* other setting of the flag would derive.
OutputDirArgs ==
    { NoPath,
      << <<"out">>, <<"results">> >>,
      << CurDir, <<"out">>, <<"results">> >>,
      << <<"out">> >>,
      with_name(ArticlesDir, SubsetDirName("allArticles")),
      with_name(ArticlesDir, SubsetDirName("articlesWithCoords")) }

\* The paths a call can touch: the directories it can resolve to and
\* their parents.
Prefixes(p) == {SubSeq(p, 1, k) : k \in 1..Len(p)}
DiskPaths ==
    UNION {Prefixes(ResolveOutputDir(dir, c)) : dir \in OutputDirArgs, c \in BOOLEAN}
        \cup Prefixes(ArticlesDir)

\* What is at a path: nothing, a regular file, or a directory with the
\* regular files in it.
Missing == [kind |-> "missing", files |-> {}]
RegularFile == [kind |-> "file", files |-> {}]
Directory(files) == [kind |-> "dir", files |-> files]
DiskEntries == {Missing, RegularFile} \cup {Directory(x) : x \in SUBSET {"info.json"}}
\* The disk before a call: the corpus root is there, and there is nothing
\* below a path that is not a directory.
Disks ==
    {d \in [DiskPaths -> DiskEntries] :
        /\ \A p \in Prefixes(ArticlesDir) : d[p] = Directory({})
        /\ d[<< <<"out">> >>].files = {}
        /\ \A p \in DiskPaths : \A q \in Prefixes(p) \ {p} :
             d[q].kind # "dir" => d[p] = Missing}
\* A disk with the corpus root alone.
BareDisk == [p \in DiskPaths |-> IF p \in Prefixes(ArticlesDir) THEN Directory({}) ELSE Missing]

\* path.mkdir(exist_ok=True, parents=True): a directory that is there is
\* left as it is; otherwise the path and its missing parents are made,
\* unless something in the way is not a directory or the system refuses.
mkdir(d, p, ok) ==
    IF d[p].kind = "dir" THEN [raised |-> FALSE, disk |-> d]
    ELSE IF \/ \E q \in Prefixes(p) : d[q].kind = "file"
            \/ ~ok
         THEN [raised |-> TRUE, disk |-> d]
         ELSE [raised |-> FALSE,
               disk |-> [q \in DOMAIN d |->
                           IF q \in Prefixes(p) /\ d[q].kind = "missing"
                           THEN Directory({}) ELSE d[q]]]

\* _get_output_dir(articles_dir, output_dir, articles_with_coords_only):
\* the path returned (or the OSError raised) and the disk it leaves.
get_output_dir(dir, coords_only, d, ok) ==
    LET made == mkdir(d, ResolveOutputDir(dir, coords_only), ok) IN
    [raised |-> made.raised,
     path |-> IF made.raised THEN NoPath ELSE ResolveOutputDir(dir, coords_only),
     disk |-> made.disk]

\* ------------------------------------------------- external collaborators
\* _utils.assert_exists(path): passes exactly when the path exists.
assert_exists(exists) == exists
\* CoordinateExtractor.extract: a table with coordinate rows, or an empty
\* one (also when the extractor failed and gave its empty result).
CoordinateResults == {"empty", "rows"}
\* MetadataExtractor.extract: the metadata fields of the document.
MetadataResults == {"fields"}
\* CSVWriter.__enter__, .__exit__ and .write on the writers' states and on
\* the log of the records one writer received.
WriterOpen(ws, w) == [ws EXCEPT ![w] = "OPEN"]
WriterClose(ws, w) == [ws EXCEPT ![w] = "CLOSED"]
WriterAppend(log, doc) == Append(log, doc)

\* ------------------------------------------------------------ the state
\* The frames and the writers before anything has run.
InitLocals ==
    /\ exc = "none"
    /\ ia_pc = "new"
    /\ enumerated = FALSE
    /\ subdirs = <<>>
    /\ si = 1
    /\ article_files = <<>>
    /\ fi = 1
    /\ ia_n_articles = 0
    /\ n_failures = 0
    /\ yielded = <<>>
    /\ progress = <<>>
    /\ ed_pc = "new"
    /\ article = <<>>
    /\ article_data = EmptyDict
    /\ ei = 1
    /\ constructed = FALSE
    /\ wstate = [w \in WriterNames |-> "CLOSED"]
    /\ opened = {}
    /\ stack = <<>>
    /\ wi = 1
    /\ n_articles = 0
    /\ written = [w \in WriterNames |-> <<>>]

\* The state when the entry point is called, on one of the corpus roots ts.
InitOn(ts) ==
    /\ root_exists \in BOOLEAN
    /\ tree \in ts
    /\ (~root_exists => tree = <<>>)
    /\ articles_with_coords_only \in BOOLEAN
    /\ (mode = "iter_articles" => ~articles_with_coords_only)
    /\ output_dir_exists \in BOOLEAN
    /\ info_json \in {<<>>, <<0>>}
    \* an info.json (left by an earlier completed run) can only be there if
    \* the directory is, and only the orchestrator has an output directory
    /\ (info_json # <<>> => output_dir_exists)
    /\ (mode = "iter_articles" => ~output_dir_exists)
    /\ info_written = FALSE
    /\ pc = IF mode = "iter_articles" THEN "it_pull" ELSE "csv_assert"
    /\ output_dir = NoPath
    /\ disk = BareDisk
    /\ returned_dir = NoPath
    /\ transformed = [error |-> FALSE, elems |-> GoodElems]
    /\ text_result = NoTextResult
    /\ InitLocals

\* Either entry point, on a corpus root as nqdc.extract_articles leaves it.
Init == mode \in Modes /\ InitOn(PlainTrees)

\* iter_articles alone, on a corpus root with stray entries.
InitIter == mode = "iter_articles" /\ InitOn(Trees)

\* iter_articles alone, on a corpus root of some dozens of files.
InitProgress == mode = "iter_articles" /\ InitOn(ProgressTrees)

\* A call of _get_output_dir alone, with each argument and on each disk.
InitOutDir ==
    /\ mode = "_get_output_dir"
    /\ root_exists = TRUE
    /\ tree = <<>>
    /\ articles_with_coords_only \in BOOLEAN
    /\ output_dir_exists = FALSE
    /\ info_json = <<>>
    /\ info_written = FALSE
    /\ pc = "god_call"
    /\ output_dir \in OutputDirArgs
    /\ disk \in Disks
    /\ returned_dir = NoPath
    /\ transformed = [error |-> FALSE, elems |-> GoodElems]
    /\ text_result = NoTextResult
    /\ InitLocals

\* A call of TextExtractor.extract alone, on each thing the stylesheet can
\* do with the document.
InitText ==
    /\ mode = "TextExtractor.extract"
    /\ root_exists = TRUE
    /\ tree = <<>>
    /\ articles_with_coords_only = FALSE
    /\ output_dir_exists = FALSE
    /\ info_json = <<>>
    /\ info_written = FALSE
    /\ pc = "text_call"
    /\ output_dir = NoPath
    /\ disk = BareDisk
    /\ returned_dir = NoPath
    /\ transformed \in Transforms
    /\ text_result = NoTextResult
    /\ InitLocals

\* ------------------------------------------------------- control helpers
\* Mutant: the writers are closed only when the block ends without an
\* exception (a plain loop of close calls after the block, no finally).
ExitStackCloseOnSuccess(ws, st) ==
    IF exc # "none" THEN ws
    ELSE [w \in WriterNames |-> IF w \in Range(st) THEN "CLOSED" ELSE ws[w]]

RECURSIVE ExitStackClose(_, _)
\* ExitStack.__exit__: the registered writers are closed, last first.
ExitStackClose(ws, st) ==
    IF st = <<>> THEN ws
    ELSE ExitStackClose(WriterClose(ws, st[Len(st)]), SubSeq(st, 1, Len(st) - 1))

\* The caller is waiting in next() on the iter_articles generator.
IterPulled ==
    \/ mode = "iter_articles" /\ pc = "it_pull"
    \/ mode = "extract_data_to_csv" /\ pc = "csv_pull" /\ ed_pc = "for"

\* The frames' locals are gone once an exception has left them.
DropLocals ==
    /\ subdirs' = <<>>
    /\ si' = 1
    /\ article_files' = <<>>
    /\ fi' = 1
    /\ article' = <<>>
    /\ article_data' = EmptyDict
    /\ ei' = 1
    /\ wi' = 1

\* An exception e leaves the generators, which are thereby finished
\* ("closed", as opposed to "done" for an exhausted one), and reaches the
\* caller's frame: inside the with block it goes through
\* ExitStack.__exit__, otherwise it reaches the caller of the entry point.
InScope == pc \in {"csv_enter", "csv_pull", "csv_count", "csv_write"}
Raise(e) ==
    /\ exc' = e
    /\ pc' = IF InScope THEN "csv_exit" ELSE "raised"
    /\ ia_pc' = "closed"
    /\ ed_pc' = "closed"
    /\ DropLocals

RaiseFrom(e) ==
    /\ Raise(e)
    /\ UNCHANGED <<envVars, unitVars, outVars, enumerated, ia_n_articles, progress, n_failures,
                   yielded, constructed, wstate, opened, stack, n_articles,
                   written>>

\* ---------------------------------------------------------- iter_articles
\* Lines 79-82: assert_exists, then the sorted list of shard directories.
IterStart ==
    /\ IterPulled
    /\ ia_pc = "new"
    /\ IF ~assert_exists(root_exists)
       THEN RaiseFrom("missing_root")
       ELSE /\ \E order \in Enumerations(RootNames(tree)) :
                 subdirs' = ListSubdirs(tree, order)
            /\ enumerated' = TRUE
            /\ si' = 1
            /\ ia_pc' = "subdir"
            /\ UNCHANGED <<envVars, unitVars, outVars, pc, exc, article_files, fi,
                           ia_n_articles, progress, n_failures, yielded, edVars, csvVars>>

\* Line 83: the sorted list of the article files of the next shard.
IterSubdir ==
    /\ IterPulled
    /\ ia_pc = "subdir"
    /\ si <= Len(subdirs)
    /\ \E order \in Enumerations(EntryNames(tree, subdirs[si])) :
         article_files' = ListArticleFiles(tree, subdirs[si], order)
    /\ fi' = 1
    /\ ia_pc' = "file"
    /\ UNCHANGED <<envVars, unitVars, outVars, pc, exc, enumerated, subdirs, si,
                   ia_n_articles, progress, n_failures, yielded, edVars, csvVars>>

\* Line 82, loop exhausted: the generator returns; the for loop of
\* extract_data (line 50) ends with it, and so does the for loop of the
\* caller.
IterExhausted ==
    /\ IterPulled
    /\ ia_pc = "subdir"
    /\ si > Len(subdirs)
    /\ ia_pc' = "done"
    /\ ed_pc' = IF mode = "extract_data_to_csv" THEN "done" ELSE ed_pc
    /\ pc' = IF mode = "extract_data_to_csv" THEN "csv_exit" ELSE "returned"
    /\ DropLocals
    /\ UNCHANGED <<envVars, unitVars, outVars, exc, enumerated, ia_n_articles, progress,
                   n_failures, yielded, constructed, wstate, opened, stack,
                   n_articles, written>>

\* Line 83, loop exhausted: back to the shard loop.
IterNextSubdir ==
    /\ IterPulled
    /\ ia_pc = "file"
    /\ fi > Len(article_files)
    /\ si' = si + 1
    /\ ia_pc' = "subdir"
    /\ UNCHANGED <<envVars, unitVars, outVars, pc, exc, enumerated, subdirs,
                   article_files, fi, ia_n_articles, progress, n_failures, yielded,
                   edVars, csvVars>>

\* Lines 93-98: the message logged once n files are counted, if any.
LogProgress(n, failures) ==
    IF n % ProgressEvery = 0
    THEN Append(progress, [shard |-> subdirs[si], processed |-> n,
                           failures |-> failures])
    ELSE progress

\* Mutant: no except clause, the parse error leaves the generator.
IterParseFailurePropagates ==
    /\ IterPulled
    /\ ia_pc = "file"
    /\ fi <= Len(article_files)
    /\ tree[subdirs[si]].files[article_files[fi]] = "bad"
    /\ Raise("parse")
    /\ n_failures' = n_failures + 1
    /\ ia_n_articles' = ia_n_articles + 1
    /\ progress' = LogProgress(ia_n_articles + 1, n_failures + 1)
    /\ UNCHANGED <<envVars, unitVars, outVars, enumerated, yielded, constructed, wstate,
                   opened, stack, n_articles, written>>

\* Lines 84-88 and 91-98: etree.parse raises; the failure is counted and
\* the finally clause counts the file and, every ProgressEvery files, logs
\* the progress.
IterParseFailure ==
    /\ IterPulled
    /\ ia_pc = "file"
    /\ fi <= Len(article_files)
    /\ tree[subdirs[si]].files[article_files[fi]] = "bad"
    /\ n_failures' = n_failures + 1
    /\ ia_n_articles' = ia_n_articles + 1
    /\ progress' = LogProgress(ia_n_articles + 1, n_failures + 1)
    /\ fi' = fi + 1
    /\ UNCHANGED <<envVars, unitVars, outVars, pc, exc, ia_pc, enumerated, subdirs, si,
                   article_files, yielded, edVars, csvVars>>

\* Lines 84-85 and 89-90: etree.parse succeeds and the document is
\* yielded, to extract_data's loop body or to the caller.
IterYield ==
    /\ IterPulled
    /\ ia_pc = "file"
    /\ fi <= Len(article_files)
    /\ tree[subdirs[si]].files[article_files[fi]] = "good"
    /\ yielded' = Append(yielded, <<subdirs[si], article_files[fi]>>)
    /\ ia_pc' = "finally"
    /\ IF mode = "extract_data_to_csv"
       THEN /\ ed_pc' = "extract"
            /\ article' = <<subdirs[si], article_files[fi]>>
            /\ article_data' = EmptyDict
            /\ ei' = 1
       ELSE UNCHANGED edVars
    /\ UNCHANGED <<envVars, unitVars, outVars, pc, exc, enumerated, subdirs, si,
                   article_files, fi, ia_n_articles, progress, n_failures, csvVars>>

\* Mutant: the counter is tested for a multiple of ProgressEvery before
\* the file is counted.
IterFinallyTestBeforeCount ==
    /\ IterPulled
    /\ ia_pc = "finally"
    /\ ia_n_articles' = ia_n_articles + 1
    /\ progress' = LogProgress(ia_n_articles, n_failures)
    /\ fi' = fi + 1
    /\ ia_pc' = "file"
    /\ UNCHANGED <<envVars, unitVars, outVars, pc, exc, enumerated, subdirs, si,
                   article_files, n_failures, yielded, edVars, csvVars>>

\* Lines 91-98, after the generator is resumed: the file is counted and,
\* every ProgressEvery files, the progress is logged.
IterFinally ==
    /\ IterPulled
    /\ ia_pc = "finally"
    /\ ia_n_articles' = ia_n_articles + 1
    /\ progress' = LogProgress(ia_n_articles + 1, n_failures)
    /\ fi' = fi + 1
    /\ ia_pc' = "file"
    /\ UNCHANGED <<envVars, unitVars, outVars, pc, exc, enumerated, subdirs, si,
                   article_files, n_failures, yielded, edVars, csvVars>>

\* ------------------------------------------------------------ extract_data
\* Lines 43-49: assert_exists and the list of extractors.
ExtractDataStart ==
    /\ pc = "csv_pull"
    /\ ed_pc = "new"
    /\ IF ~assert_exists(root_exists)
       THEN RaiseFrom("missing_root")
       ELSE /\ ed_pc' = "for"
            /\ UNCHANGED <<envVars, unitVars, outVars, pc, exc, iaVars, article,
                           article_data, ei, csvVars>>

\* Mutant: an extractor's empty result is left out of the record.
ExtractedSkippingEmpty(value) ==
    /\ article_data' =
         IF \/ data_extractors[ei] = "coordinates" /\ value = "empty"
            \/ data_extractors[ei] = "text" /\ DOMAIN value = {}
         THEN article_data
         ELSE (data_extractors[ei] :> value) @@ article_data
    /\ IF ei = Len(data_extractors)
       THEN /\ ed_pc' = "for"
            /\ pc' = "csv_count"
            /\ ei' = 1
       ELSE /\ ei' = ei + 1
            /\ UNCHANGED <<ed_pc, pc>>
    /\ UNCHANGED <<envVars, unitVars, outVars, exc, iaVars, article, csvVars>>

\* Lines 51-54: the comprehension runs the next extractor; after the last
\* one the record is yielded to extract_data_to_csv (line 169).
Extracted(value) ==
    /\ article_data' = (data_extractors[ei] :> value) @@ article_data
    /\ IF ei = Len(data_extractors)
       THEN /\ ed_pc' = "for"
            /\ pc' = "csv_count"
            /\ ei' = 1
       ELSE /\ ei' = ei + 1
            /\ UNCHANGED <<ed_pc, pc>>
    /\ UNCHANGED <<envVars, unitVars, outVars, exc, iaVars, article, csvVars>>

ExtractCoordinates ==
    /\ pc = "csv_pull"
    /\ ed_pc = "extract"
    /\ data_extractors[ei] = "coordinates"
    /\ \E rows \in CoordinateResults : Extracted(rows)

ExtractMetadata ==
    /\ pc = "csv_pull"
    /\ ed_pc = "extract"
    /\ data_extractors[ei] = "metadata"
    /\ \E found \in MetadataResults : Extracted(found)

ExtractTextFields ==
    /\ pc = "csv_pull"
    /\ ed_pc = "extract"
    /\ data_extractors[ei] = "text"
    /\ \E t \in RunTransforms :
         LET r == ExtractText(t) IN
         IF r.raised THEN RaiseFrom("extractor") ELSE Extracted(r.result)

\* ----------------------------------------------------- extract_data_to_csv
\* Mutant: the root is not checked before the output directory is made.
AssertExistsSkipped ==
    /\ pc = "csv_assert"
    /\ pc' = "csv_outdir"
    /\ UNCHANGED <<envVars, unitVars, outVars, exc, iaVars, edVars, csvVars>>

\* Line 153.
AssertExists ==
    /\ pc = "csv_assert"
    /\ IF ~assert_exists(root_exists)
       THEN RaiseFrom("missing_root")
       ELSE /\ pc' = "csv_outdir"
            /\ UNCHANGED <<envVars, unitVars, outVars, exc, iaVars, edVars, csvVars>>

\* Lines 154-156 and 101-119: mkdir(exist_ok=True, parents=True) creates
\* the directory, or raises when it cannot be created.
GetOutputDir ==
    /\ pc = "csv_outdir"
    /\ \E ok \in BOOLEAN :
         IF ok \/ output_dir_exists
         THEN /\ output_dir_exists' = TRUE
              /\ pc' = "csv_writers"
              /\ UNCHANGED <<envVars, unitVars, info_json, info_written, exc, iaVars,
                             edVars, csvVars>>
         ELSE RaiseFrom("mkdir")

\* Lines 160-164.
MakeWriters ==
    /\ pc = "csv_writers"
    /\ constructed' = TRUE
    /\ wi' = 1
    /\ pc' = "csv_enter"
    /\ UNCHANGED <<envVars, unitVars, outVars, exc, iaVars, edVars, wstate, opened,
                   stack, n_articles, written>>

\* Lines 166-167: stack.enter_context(writer) opens the writer and
\* registers it, or the writer's __enter__ raises.
EnterContext ==
    /\ pc = "csv_enter"
    /\ wi <= Len(all_writers)
    /\ \E ok \in BOOLEAN :
         IF ok
         THEN /\ wstate' = WriterOpen(wstate, all_writers[wi])
              /\ opened' = opened \cup {all_writers[wi]}
              /\ stack' = Append(stack, all_writers[wi])
              /\ wi' = wi + 1
              /\ UNCHANGED <<envVars, unitVars, outVars, pc, exc, iaVars, edVars,
                             constructed, n_articles, written>>
         ELSE RaiseFrom("open")

\* Mutant: the stream starts as soon as one writer is open.
BeginStreamAfterFirstWriter ==
    /\ pc = "csv_enter"
    /\ wi > 1
    /\ n_articles' = 0
    /\ wi' = 1
    /\ pc' = "csv_pull"
    /\ UNCHANGED <<envVars, unitVars, outVars, exc, iaVars, edVars, constructed,
                   wstate, opened, stack, written>>

\* Line 168.
BeginStream ==
    /\ pc = "csv_enter"
    /\ wi > Len(all_writers)
    /\ n_articles' = 0
    /\ wi' = 1
    /\ pc' = "csv_pull"
    /\ UNCHANGED <<envVars, unitVars, outVars, exc, iaVars, edVars, constructed, wstate,
                   opened, stack, written>>

\* Mutant: only the records that hold coordinates are counted.
CountArticleWithCoordinates ==
    /\ pc = "csv_count"
    /\ n_articles' = IF article_data["coordinates"] = "rows"
                     THEN n_articles + 1 ELSE n_articles
    /\ wi' = 1
    /\ pc' = "csv_write"
    /\ UNCHANGED <<envVars, unitVars, outVars, exc, iaVars, edVars, constructed, wstate,
                   opened, stack, written>>

\* Line 172.
CountArticle ==
    /\ pc = "csv_count"
    /\ n_articles' = n_articles + 1
    /\ wi' = 1
    /\ pc' = "csv_write"
    /\ UNCHANGED <<envVars, unitVars, outVars, exc, iaVars, edVars, constructed, wstate,
                   opened, stack, written>>

\* Mutant: the writer loop is left after its first write (a break), and the
\* next record is pulled.
WriteRecordFirstWriterOnly ==
    /\ pc = "csv_write"
    /\ \E ok \in BOOLEAN :
         IF ok
         THEN /\ written' = [written EXCEPT
                    ![all_writers[wi]] = WriterAppend(@, article)]
              /\ pc' = "csv_pull"
              /\ wi' = 1
              /\ article' = <<>>
              /\ article_data' = EmptyDict
              /\ UNCHANGED <<envVars, unitVars, outVars, exc, iaVars, ed_pc, ei,
                             constructed, wstate, opened, stack, n_articles>>
         ELSE RaiseFrom("write")

\* Lines 173-174: writer.write(article_data) appends, or raises; after the
\* last writer the loop of line 169 pulls the next record, and the record
\* just written is not read again (it is dropped here).
WriteRecord ==
    /\ pc = "csv_write"
    /\ \E ok \in BOOLEAN :
         IF ok
         THEN /\ written' = [written EXCEPT
                    ![all_writers[wi]] = WriterAppend(@, article)]
              /\ IF wi = Len(all_writers)
                 THEN /\ pc' = "csv_pull"
                      /\ wi' = 1
                      /\ article' = <<>>
                      /\ article_data' = EmptyDict
                 ELSE /\ pc' = pc
                      /\ wi' = wi + 1
                      /\ UNCHANGED <<article, article_data>>
              /\ UNCHANGED <<envVars, unitVars, outVars, exc, iaVars, ed_pc, ei,
                             constructed, wstate, opened, stack, n_articles>>
         ELSE RaiseFrom("write")

\* Mutant: the scope swallows the exception in flight (as if a writer's
\* __exit__ returned true) and the function goes on after the block.
ExitScopeSuppresses ==
    /\ pc = "csv_exit"
    /\ wstate' = ExitStackClose(wstate, stack)
    /\ stack' = <<>>
    /\ pc' = "csv_info"
    /\ UNCHANGED <<envVars, unitVars, outVars, exc, iaVars, edVars, constructed, opened,
                   wi, n_articles, written>>

\* Line 165, leaving the with block: ExitStack.__exit__ closes the
\* registered writers; a close may raise; an exception in flight goes on
\* to the caller.
ExitScope ==
    /\ pc = "csv_exit"
    /\ wstate' = ExitStackClose(wstate, stack)
    /\ stack' = <<>>
    /\ \E close_fails \in BOOLEAN :
         /\ close_fails => stack # <<>>
         /\ exc' = IF close_fails THEN "close" ELSE exc
    /\ pc' = IF exc' # "none" THEN "raised" ELSE "csv_info"
    /\ UNCHANGED <<envVars, unitVars, outVars, iaVars, edVars, constructed, opened, wi,
                   n_articles, written>>

\* Lines 175-179.
WriteInfo ==
    /\ pc = "csv_info"
    /\ info_json' = <<n_articles>>
    /\ info_written' = TRUE
    /\ pc' = "returned"
    /\ UNCHANGED <<envVars, unitVars, output_dir_exists, exc, iaVars, edVars, csvVars>>

\* The process is interrupted (KeyboardInterrupt) while the run is going.
Interrupt ==
    /\ pc \notin {"returned", "raised", "csv_exit"}
    /\ RaiseFrom("interrupt")

Next ==
    \/ IterStart
    \/ IterSubdir
    \/ IterExhausted
    \/ IterNextSubdir
    \/ IterParseFailure
    \/ IterYield
    \/ IterFinally
    \/ ExtractDataStart
    \/ ExtractCoordinates
    \/ ExtractMetadata
    \/ ExtractTextFields
    \/ AssertExists
    \/ GetOutputDir
    \/ MakeWriters
    \/ EnterContext
    \/ BeginStream
    \/ CountArticle
    \/ WriteRecord
    \/ ExitScope
    \/ WriteInfo
    \/ Interrupt

Spec == Init /\ [][Next]_vars

\* The steps of a loop over iter_articles(articles_dir) that nothing
\* interrupts.
NextIter ==
    \/ IterStart
    \/ IterSubdir
    \/ IterExhausted
    \/ IterNextSubdir
    \/ IterParseFailure
    \/ IterYield
    \/ IterFinally

SpecIter == InitIter /\ [][NextIter]_vars

SpecProgress == InitProgress /\ [][NextIter]_vars

\* Lines 101-119, called on its own: the path is returned, or mkdir's
\* error reaches the caller.
CallGetOutputDir ==
    /\ mode = "_get_output_dir"
    /\ pc = "god_call"
    /\ \E ok \in BOOLEAN :
         LET r == get_output_dir(output_dir, articles_with_coords_only, disk, ok) IN
         /\ disk' = r.disk
         /\ returned_dir' = r.path
         /\ pc' = IF r.raised THEN "raised" ELSE "returned"
         /\ exc' = IF r.raised THEN "mkdir" ELSE exc
    /\ UNCHANGED <<envVars, outVars, output_dir, iaVars, edVars, csvVars,
                   textVars>>

SpecOutDir == InitOutDir /\ [][CallGetOutputDir]_vars

\* _text.py lines 19-39, called on its own: the mapping is returned, or
\* the error of line 37 or 38 reaches the caller.
CallExtractText ==
    /\ mode = "TextExtractor.extract"
    /\ pc = "text_call"
    /\ text_result' = ExtractText(transformed)
    /\ pc' = IF text_result'.raised THEN "raised" ELSE "returned"
    /\ exc' = IF text_result'.raised THEN "extractor" ELSE exc
    /\ UNCHANGED <<envVars, outVars, transformed, iaVars, edVars, csvVars,
                   godVars>>

SpecText == InitText /\ [][CallExtractText]_vars

\* ------------------------------------------------------------ properties
\* The documents a traversal of tree t is to yield: the parseable files
\* with a matching name directly inside a directory of the root, by shard
\* name and then by file name.
RECURSIVE ExpectedFrom(_, _, _)
ExpectedFrom(t, d, f) ==
    IF d > Len(t) THEN <<>>
    ELSE IF f > Len(t[d].files) THEN ExpectedFrom(t, d + 1, 1)
    ELSE (IF t[d].kind = "dir" /\ t[d].files[f] = "good" THEN <<<<d, f>>>> ELSE <<>>)
             \o ExpectedFrom(t, d, f + 1)
Expected(t) == ExpectedFrom(t, 1, 1)

IsPrefix(s, t) == Len(s) <= Len(t) /\ SubSeq(t, 1, Len(s)) = s

\* The matching files of t that do not parse.
BadFiles(t) ==
    {x \in UNION {{<<d, f>> : f \in DOMAIN t[d].files} : d \in DOMAIN t} :
        t[x[1]].files[x[2]] = "bad"}
\* t with file x taken away (the other entries keep their names).
Without(t, x) == [t EXCEPT ![x[1]].files[x[2]] = "absent"]
\* x comes before y in the traversal order.
Before(x, y) == x[1] < y[1] \/ (x[1] = y[1] /\ x[2] < y[2])

Terminated == pc \in {"returned", "raised"}
RunIsCsv == mode = "extract_data_to_csv"

\* C1: with coordinates-only filtering enabled, the record of a document
\* whose coordinate extraction gave zero rows is handed to no writer: no
\* step appends it to any writer's log.
C1_FilteredDocumentReachesNoWriter ==
    [][(/\ articles_with_coords_only
        /\ pc = "csv_write"
        /\ article_data["coordinates"] = "empty") => written' = written]_vars

\* C2: no failure inside an extractor aborts the run: no exception raised
\* by an extractor is ever in flight towards the caller of
\* extract_data_to_csv, and when the stream ends every document of the
\* Article Source has been handed to every writer.
C2_ExtractorFailureStaysLocal ==
    /\ exc # "extractor"
    /\ (RunIsCsv /\ ia_pc = "done") =>
         \A w \in WriterNames : written[w] = Expected(tree)

\* C3: whatever order the filesystem enumerates in, the documents yielded
\* so far are the first of the expected sequence, and a traversal that ran
\* to its end has yielded exactly the expected sequence.
C3_TraversalOrderIsDeterministic ==
    /\ IsPrefix(yielded, Expected(tree))
    /\ ia_pc = "done" => yielded = Expected(tree)

C3_Witness ==
    /\ ia_pc = "done"
    /\ Len(yielded) >= 3
    /\ \E d \in DOMAIN tree : \E f \in DOMAIN tree[d].files : tree[d].files[f] = "other"

\* C4: a parse failure never leaves the traversal as an exception; a
\* traversal that ran to its end has counted one failure for each
\* unparsable file and yielded what it would have yielded had any one of
\* the unparsable files not been there.
C4_ParseFailureSkipsOnlyThatFile ==
    /\ exc # "parse"
    /\ n_failures <= Cardinality(BadFiles(tree))
    /\ ia_pc = "done" =>
         /\ n_failures = Cardinality(BadFiles(tree))
         /\ \A x \in BadFiles(tree) : yielded = Expected(Without(tree, x))

C4_Witness ==
    /\ ia_pc = "done"
    /\ \E x \in BadFiles(tree) :
         \E i, j \in DOMAIN yielded : Before(yielded[i], x) /\ Before(x, yielded[j])

\* The stream has ended and no exception is in flight.
StreamEnded ==
    \/ pc = "csv_exit" /\ exc = "none"
    \/ pc \in {"csv_info", "returned"}

\* C5: whenever extract_data_to_csv pulls the next document, and once the
\* stream has ended, every writer has received as many write calls as
\* n_articles counts; the n_articles this run writes to info.json is that
\* number.
C5_RowCountConsistency ==
    /\ (pc = "csv_pull" \/ StreamEnded) =>
         \A w \in WriterNames : Len(written[w]) = n_articles
    /\ info_written =>
         \A w \in WriterNames : info_json = <<Len(written[w])>>

C5_Witness ==
    /\ pc = "returned"
    /\ info_written
    /\ info_json = <<2>>
    /\ n_failures >= 1

\* C6: once extract_data_to_csv has returned or raised, no writer is OPEN,
\* however the writer scope was left.
C6_ScopedClose == Terminated => \A w \in WriterNames : wstate[w] = "CLOSED"

C6_Witness ==
    /\ pc = "raised"
    /\ exc = "open"
    /\ Cardinality(opened) = 2
    /\ \A w \in opened : wstate[w] = "CLOSED"

\* C7: once a writer's append has raised, no further document is pulled or
\* parsed, no further write is issued, the run never reaches its return
\* and never writes info.json: an exception reaches the caller.
C7_WriteFailureAbortsRun ==
    /\ [](exc = "write" => pc \in {"csv_exit", "raised"} /\ ~info_written)
    /\ [][exc = "write" =>
            /\ UNCHANGED <<written, yielded, ia_n_articles, n_articles,
                           info_json, info_written>>
            /\ pc' = "raised"
            /\ exc' \in {"write", "close"}]_vars

C7_Witness ==
    /\ pc = "raised"
    /\ exc = "write"
    /\ Len(written["metadata"]) = 2
    /\ Len(written["text"]) = 1
    /\ Len(yielded) < Len(Expected(tree))
    /\ ~info_written

\* C8: after a run of extract_data_to_csv that ended by an exception or was
\* interrupted, the output directory holds no info.json, whatever it held
\* before the run.
C8_InfoJsonMarksCompletion == (RunIsCsv /\ pc = "raised") => info_json = <<>>

\* C9: a run of extract_data_to_csv whose corpus root exists, whose output
\* directory could be made, in which no writer operation failed and which
\* was not interrupted ends by returning, with info.json holding its
\* n_articles.
C9_CompletedRunWritesInfo ==
    (/\ RunIsCsv
     /\ Terminated
     /\ exc \notin {"missing_root", "mkdir", "open", "write", "close", "interrupt"})
        => /\ pc = "returned"
           /\ info_written
           /\ info_json = <<n_articles>>

\* C10: with a missing corpus root nothing happens but the failure: the
\* output directory and info.json stay as they were, no writer is
\* constructed or opened, the root is not enumerated, no file is parsed, no
\* document is yielded, and the run is at its start or has raised.
C10_MissingRootFailsFast ==
    /\ [](~root_exists =>
            /\ ~constructed
            /\ opened = {}
            /\ ~enumerated
            /\ ia_n_articles = 0
            /\ yielded = <<>>
            /\ ~info_written
            /\ pc \in {"csv_assert", "it_pull", "raised"}
            /\ exc \in {"none", "missing_root", "interrupt"})
    /\ [][~root_exists => UNCHANGED <<output_dir_exists, info_json>>]_vars

C10_Witness ==
    /\ RunIsCsv
    /\ ~root_exists
    /\ pc = "raised"
    /\ exc = "missing_root"
    /\ ~output_dir_exists

\* The place a path names: its components, the "." ones aside.
Location(p) == SelectSeq(p, LAMBDA name : name # <<".">>)
\* The sibling of the corpus root with the given name.
Sibling(name) ==
    SubSeq(Location(ArticlesDir), 1, Len(Location(ArticlesDir)) - 1) \o <<name>>
\* The directory a call with the current arguments is to give.
C11_Target ==
    IF output_dir = NoPath
    THEN IF articles_with_coords_only
         THEN Sibling(<<"subset_", "articlesWithCoords", "_extractedData">>)
         ELSE Sibling(<<"subset_", "allArticles", "_extractedData">>)
    ELSE Location(output_dir)

\* C11: a call of _get_output_dir that returns gives, when no output
\* directory was supplied, the sibling of the corpus root named
\* subset_articlesWithCoords_extractedData (filtering on) or
\* subset_allArticles_extractedData (off), and when one was supplied that
\* same place whatever the flag; the directory exists afterwards; a
\* directory that was there keeps its content, nothing that was there is
\* removed, and the call does not fail when the directory was there.
C11_OutputDirResolution ==
    /\ [](pc = "returned" =>
            /\ returned_dir = C11_Target
            /\ disk[returned_dir].kind = "dir")
    /\ [][\A p \in DiskPaths :
            /\ disk[p].kind = "dir" => disk'[p] = disk[p]
            /\ disk[p].kind = "file" => disk'[p] = disk[p]]_vars
    /\ [][disk[C11_Target].kind = "dir" => pc' = "returned"]_vars

C11_Witness ==
    /\ pc = "returned"
    /\ output_dir = NoPath
    /\ articles_with_coords_only
    /\ disk[returned_dir] = Directory({"info.json"})
    /\ disk[Sibling(<<"subset_", "allArticles", "_extractedData">>)] = Missing

\* C12: in extract_data_to_csv every registered writer is open while
\* documents are pulled, counted and written, the generators are not
\* started and nothing of the corpus is listed, parsed or yielded before
\* every writer has been opened, and every step that appends a record to
\* a writer finds that writer OPEN and leaves it OPEN.
C12_WritersOpenBeforeRecords ==
    /\ [](RunIsCsv =>
            /\ pc \in {"csv_pull", "csv_count", "csv_write"} =>
                  \A w \in WriterNames : wstate[w] = "OPEN"
            /\ (enumerated \/ yielded # <<>> \/ ia_n_articles > 0
                    \/ ed_pc \in {"for", "extract"}
                    \/ ia_pc \in {"subdir", "file", "finally", "done"}) =>
                  opened = WriterNames)
    /\ [][\A w \in WriterNames :
            written'[w] # written[w] =>
                wstate[w] = "OPEN" /\ wstate'[w] = "OPEN"]_vars

C12_Witness ==
    /\ pc = "csv_write"
    /\ wi = Len(all_writers)
    /\ \A w \in WriterNames : wstate[w] = "OPEN"
    /\ Len(written["metadata"]) = 2
    /\ Len(written["coordinates"]) = 1

\* C13: in extract_data_to_csv each writer's log is a prefix of the
\* sequence of documents yielded (source order, nothing skipped); the
\* writers are served in the order metadata, text, coordinates, so no log
\* is longer than the one before it and the last is at most one behind
\* the first; at most one yielded document is not yet in every log, and
\* the document being assembled or written is the one yielded last.
C13_OneDocumentInFlight ==
    RunIsCsv =>
        /\ \A w \in WriterNames : IsPrefix(written[w], yielded)
        /\ Len(written["metadata"]) >= Len(written["text"])
        /\ Len(written["text"]) >= Len(written["coordinates"])
        /\ Len(written["coordinates"]) >= Len(written["metadata"]) - 1
        /\ Len(yielded) <= Len(written["coordinates"]) + 1
        /\ article # <<>> => article = yielded[Len(yielded)]

C13_Witness ==
    /\ RunIsCsv
    /\ pc = "csv_write"
    /\ Len(yielded) = 3
    /\ Len(written["metadata"]) = 3
    /\ Len(written["text"]) = 2
    /\ Len(written["coordinates"]) = 2
    /\ n_failures = 1

\* C14: every record extract_data has yielded (the record the orchestrator
\* counts and writes) has exactly the names of the registered extractors
\* as its keys, coordinates, metadata and text, also when an extractor
\* gave its empty result.
C14_RecordKeySet ==
    pc \in {"csv_count", "csv_write"} =>
        /\ DOMAIN article_data = {"coordinates", "metadata", "text"}
        /\ DOMAIN article_data = Range(data_extractors)

C14_Witness ==
    /\ pc = "csv_write"
    /\ article_data["text"] = EmptyDict
    /\ article_data["coordinates"] = "empty"
    /\ Len(yielded) = 2

\* The declared text fields a document can lack the content of.
ContentFields == {"title", "keywords", "abstract", "body"}
\* The fields whose content the transformed document lacks: no element,
\* or an element without text.
Lacking == {f \in ContentFields : transformed.elems[f] \in {"absent", "null"}}

\* C15: a call of TextExtractor.extract on a document whose transform
\* succeeds and gives a numeric pmcid, but which lacks the content of some
\* of title, keywords, abstract, body, returns (raises nothing), with each
\* such field's key present and null.
C15_MissingFieldGivesNullKey ==
    (/\ mode = "TextExtractor.extract"
     /\ pc # "text_call"
     /\ ~transformed.error
     /\ transformed.elems["pmcid"] = "digits"
     /\ Lacking # {})
        => /\ pc = "returned"
           /\ \A f \in Lacking :
                /\ f \in DOMAIN text_result.result
                /\ text_result.result[f] = "None"

\* C16: a call of TextExtractor.extract whose transform raises returns
\* the empty mapping and raises nothing; any other call that returns gives
\* a mapping whose keys are exactly pmcid, title, keywords, abstract and
\* body, with an integer pmcid.
C16_NoPartialMapping ==
    (mode = "TextExtractor.extract" /\ pc # "text_call") =>
        /\ transformed.error =>
              pc = "returned" /\ text_result.result = EmptyDict
        /\ (pc = "returned" /\ ~transformed.error) =>
              /\ DOMAIN text_result.result =
                    {"pmcid", "title", "keywords", "abstract", "body"}
              /\ text_result.result["pmcid"] = "int"

C16_Witness ==
    /\ mode = "TextExtractor.extract"
    /\ pc = "returned"
    /\ ~transformed.error
    /\ transformed.elems["title"] = "null"
    /\ text_result.result["title"] = "None"
    /\ text_result.result["pmcid"] = "int"

\* The files of t that iter_articles is to parse, in traversal order: the
\* files named pmcid_*.xml of the directories of the root.
RECURSIVE MatchingFrom(_, _, _)
MatchingFrom(t, d, f) ==
    IF d > Len(t) THEN <<>>
    ELSE IF f > Len(t[d].files) THEN MatchingFrom(t, d + 1, 1)
    ELSE (IF t[d].kind = "dir" /\ t[d].files[f] \in {"bad", "good"}
          THEN <<<<d, f>>>> ELSE <<>>) \o MatchingFrom(t, d, f + 1)
Matching(t) == MatchingFrom(t, 1, 1)

\* C17: iter_articles counts every matching file once, parsed or not, and
\* every unparsable file once as a failure: a step adds at most one to
\* either counter, a failure only together with a processed file, the
\* processed files are those yielded (and resumed from) plus the failures,
\* and at the end both counters are the numbers of such files. The
\* progress messages are one for each positive multiple of 20 reached,
\* in order; each is logged by the step that makes the processed counter
\* that multiple, reports that counter, the failure counter, the shard of
\* the file whose processing made the count, and its processed count is
\* the number of documents yielded so far plus its failure count.
C17_ProgressAccounting ==
    /\ [](/\ ia_n_articles + (IF ia_pc = "finally" THEN 1 ELSE 0)
                = Len(yielded) + n_failures
          /\ ia_pc = "done" =>
                /\ ia_n_articles = Len(Matching(tree))
                /\ n_failures = Cardinality(BadFiles(tree))
          /\ Len(progress) = ia_n_articles \div 20
          /\ \A k \in DOMAIN progress :
                /\ progress[k].processed = 20 * k
                /\ progress[k].shard = Matching(tree)[20 * k][1])
    /\ [][/\ ia_n_articles' \in {ia_n_articles, ia_n_articles + 1}
          /\ n_failures' \in {n_failures, n_failures + 1}
          /\ n_failures' # n_failures => ia_n_articles' # ia_n_articles
          /\ progress' # progress =>
                /\ progress' = Append(progress, progress'[Len(progress')])
                /\ progress'[Len(progress')].processed = ia_n_articles'
                /\ progress'[Len(progress')].failures = n_failures'
                /\ progress'[Len(progress')].processed
                      = Len(yielded') + progress'[Len(progress')].failures]_vars

C17_Witness ==
    /\ ia_pc = "done"
    /\ Len(progress) = 2
    /\ progress[1].shard # progress[2].shard
    /\ progress[1].failures > 0
    /\ Len(yielded) > progress[2].processed - progress[2].failures
    /\ Len(Matching(tree)) < Len(tree[1].files) + Len(tree[2].files) + Len(tree[3].files)

====
